---- MODULE Spec2Model ----
(***************************************************************************)
(* Model of src/inventory_system.py: an inventory (a Python dict from item *)
(* name to quantity) with add / remove / query operations, JSON            *)
(* persistence and the demo entry point main().                            *)
(*                                                                         *)
(* Three specifications share the variables:                               *)
(*   Spec      the store operations called in any order on one dict;       *)
(*   SpecIO    save_data / load_data called in any order on one path;      *)
(*   SpecMain  main(), one step per statement, from any default file.      *)
(*                                                                         *)
(* Python values are tagged records, because the code's behaviour depends  *)
(* on the dynamic type (isinstance checks, TypeError on arithmetic and on  *)
(* comparison).  A dict is a sequence of entries in insertion order.       *)
(* bool is a subclass of int in Python and behaves as 0/1 in every         *)
(* expression of this program, so it is covered by the "int" values.       *)
(***************************************************************************)
EXTENDS Integers, Sequences, FiniteSets, TLC

VARIABLES inventory, file, pc, last, ret, ledger, calls

vars == <<inventory, file, pc, last, ret, ledger, calls>>

(***************************************************************************)
(* Bounds of the model.                                                    *)
(***************************************************************************)
\* largest magnitude of a stored quantity the store specification explores
MaxQty == 5
\* largest magnitude of the real and imaginary parts of a stored complex value
MaxComplex == 1
\* largest magnitude of an integer in the inventories handed to save_data
IOMax == 12

(***************************************************************************)
(* Python values.                                                          *)
(***************************************************************************)
IntV(n) == [t |-> "int", n |-> n, im |-> 0, s |-> ""]
StrV(s) == [t |-> "str", n |-> 0, im |-> 0, s |-> s]
NoneV == [t |-> "none", n |-> 0, im |-> 0, s |-> ""]
ComplexV(re, i) == [t |-> "complex", n |-> re, im |-> i, s |-> ""]

IsNumber(v) == v.t \in {"int", "complex"}

\* a + b as Python evaluates it; ok = FALSE stands for TypeError.
\* (str + str concatenates, but no call site of the program adds two
\* strings: add_item only adds a checked int.)
PyAdd(a, b) ==
  IF ~(IsNumber(a) /\ IsNumber(b)) THEN [ok |-> FALSE, v |-> NoneV]
  ELSE IF a.t = "int" /\ b.t = "int" THEN [ok |-> TRUE, v |-> IntV(a.n + b.n)]
  ELSE [ok |-> TRUE, v |-> ComplexV(a.n + b.n, a.im + b.im)]

\* a - b as Python evaluates it; ok = FALSE stands for TypeError.
PySub(a, b) ==
  IF ~(IsNumber(a) /\ IsNumber(b)) THEN [ok |-> FALSE, v |-> NoneV]
  ELSE IF a.t = "int" /\ b.t = "int" THEN [ok |-> TRUE, v |-> IntV(a.n - b.n)]
  ELSE [ok |-> TRUE, v |-> ComplexV(a.n - b.n, a.im - b.im)]

\* a < n for an int n; ok = FALSE stands for TypeError (str, None and
\* complex do not order against an int).
PyLt(a, n) ==
  IF a.t = "int" THEN [ok |-> TRUE, b |-> a.n < n] ELSE [ok |-> FALSE, b |-> FALSE]

\* a <= n for an int n; ok = FALSE stands for TypeError.
PyLe(a, n) ==
  IF a.t = "int" THEN [ok |-> TRUE, b |-> a.n <= n] ELSE [ok |-> FALSE, b |-> FALSE]

(***************************************************************************)
(* Python dict with str keys: a sequence of entries [k, v] in insertion    *)
(* order, no key twice.                                                    *)
(***************************************************************************)
EmptyDict == <<>>

Keys(d) == {d[i].k : i \in 1..Len(d)}

\* position of key k in d (0 when absent)
IndexOf(d, k) ==
  IF \E i \in 1..Len(d) : d[i].k = k
  THEN CHOOSE i \in 1..Len(d) : d[i].k = k
  ELSE 0

\* `item in d`: a non-str item is hashable but equals no str key
dict_has(d, item) == item.t = "str" /\ item.s \in Keys(d)

\* d.get(item, default)
dict_get(d, item, default) ==
  IF dict_has(d, item) THEN d[IndexOf(d, item.s)].v ELSE default

\* d[k] = v: an existing key keeps its position, a new key goes last
dict_set(d, k, v) ==
  IF k \in Keys(d)
  THEN [d EXCEPT ![IndexOf(d, k)] = [k |-> k, v |-> v]]
  ELSE Append(d, [k |-> k, v |-> v])

\* del d[k]
dict_del(d, k) == SelectSeq(d, LAMBDA e : e.k # k)

(***************************************************************************)
(* The store operations.  Each operator returns the inventory after the    *)
(* call (the dict is mutated in place by the code), what was reported:     *)
(* out = "ok" | "warning" | "error" | "raise" (an exception leaves the     *)
(* function), msg = which message or exception, and the returned value.    *)
(***************************************************************************)

\* add_item that stores qty instead of adding it to the stored quantity
add_item_overwrite(inv, item, qty) ==
  IF item.t # "str" \/ qty.t # "int"
  THEN [inv |-> inv, out |-> "error", msg |-> "invalid_types"]
  ELSE [inv |-> dict_set(inv, item.s, qty), out |-> "ok", msg |-> "added"]

add_item(inv, item, qty) ==
  IF item.t # "str" \/ qty.t # "int"
  THEN [inv |-> inv, out |-> "error", msg |-> "invalid_types"]
  ELSE LET sum == PyAdd(dict_get(inv, item, IntV(0)), qty)
       IN  IF ~sum.ok
           THEN [inv |-> inv, out |-> "raise", msg |-> "TypeError"]
           ELSE [inv |-> dict_set(inv, item.s, sum.v), out |-> "ok", msg |-> "added"]

\* remove_item that deletes the entry only below 0
remove_item_keeps_zero(inv, item, qty) ==
  IF ~dict_has(inv, item)
  THEN [inv |-> inv, out |-> "warning", msg |-> "not_in_stock"]
  ELSE LET diff == PySub(dict_get(inv, item, NoneV), qty)
       IN  IF ~diff.ok
           THEN [inv |-> inv, out |-> "error", msg |-> "invalid_quantity"]
           ELSE LET inv1 == dict_set(inv, item.s, diff.v)
                    gone == PyLt(diff.v, 0)
                IN  IF ~gone.ok
                    THEN [inv |-> inv1, out |-> "error", msg |-> "invalid_quantity"]
                    ELSE IF gone.b
                    THEN [inv |-> dict_del(inv1, item.s), out |-> "ok", msg |-> "removed_all"]
                    ELSE [inv |-> inv1, out |-> "ok", msg |-> "removed_some"]

remove_item(inv, item, qty) ==
  IF ~dict_has(inv, item)
  THEN [inv |-> inv, out |-> "warning", msg |-> "not_in_stock"]
  ELSE \* try: inventory[item] -= qty
       LET diff == PySub(dict_get(inv, item, NoneV), qty)
       IN  IF ~diff.ok
           THEN \* TypeError before the store: nothing was assigned
                [inv |-> inv, out |-> "error", msg |-> "invalid_quantity"]
           ELSE LET inv1 == dict_set(inv, item.s, diff.v)
                    gone == PyLe(diff.v, 0)
                IN  IF ~gone.ok
                    THEN \* TypeError in the comparison, after the store
                         [inv |-> inv1, out |-> "error", msg |-> "invalid_quantity"]
                    ELSE IF gone.b
                    THEN [inv |-> dict_del(inv1, item.s), out |-> "ok", msg |-> "removed_all"]
                    ELSE [inv |-> inv1, out |-> "ok", msg |-> "removed_some"]

\* get_qty written with setdefault: an absent item gets an entry of 0
get_qty_setdefault(inv, item) ==
  [inv |-> IF dict_has(inv, item) \/ item.t # "str" THEN inv
           ELSE dict_set(inv, item.s, IntV(0)),
   ret |-> dict_get(inv, item, IntV(0))]

get_qty(inv, item) ==
  [inv |-> inv, ret |-> dict_get(inv, item, IntV(0))]

\* the list comprehension of check_low_items from entry i on, left to
\* right; ok = FALSE when a comparison raises TypeError
RECURSIVE LowFrom(_, _, _)
LowFrom(inv, threshold, i) ==
  IF i > Len(inv) THEN [ok |-> TRUE, l |-> <<>>]
  ELSE LET c == PyLt(inv[i].v, threshold)
           rest == LowFrom(inv, threshold, i + 1)
       IN  IF ~c.ok THEN [ok |-> FALSE, l |-> <<>>]
           ELSE IF ~rest.ok THEN rest
           ELSE [ok |-> TRUE, l |-> IF c.b THEN <<inv[i].k>> \o rest.l ELSE rest.l]

\* check_low_items with <= in place of <
RECURSIVE LowFromLe(_, _, _)
LowFromLe(inv, threshold, i) ==
  IF i > Len(inv) THEN [ok |-> TRUE, l |-> <<>>]
  ELSE LET c == PyLe(inv[i].v, threshold)
           rest == LowFromLe(inv, threshold, i + 1)
       IN  IF ~c.ok THEN [ok |-> FALSE, l |-> <<>>]
           ELSE IF ~rest.ok THEN rest
           ELSE [ok |-> TRUE, l |-> IF c.b THEN <<inv[i].k>> \o rest.l ELSE rest.l]

check_low_items_le(inv, threshold) ==
  LET r == LowFromLe(inv, threshold, 1)
  IN  IF r.ok THEN [inv |-> inv, out |-> "ok", msg |-> "returned", ret |-> r.l]
      ELSE [inv |-> inv, out |-> "raise", msg |-> "TypeError", ret |-> <<>>]

check_low_items(inv, threshold) ==
  LET r == LowFrom(inv, threshold, 1)
  IN  IF r.ok THEN [inv |-> inv, out |-> "ok", msg |-> "returned", ret |-> r.l]
      ELSE [inv |-> inv, out |-> "raise", msg |-> "TypeError", ret |-> <<>>]

\* default of check_low_items' threshold parameter
DefaultThreshold == 5

\* the lines print_data writes between its header and footer: one
\* "item -> qty" line per entry in iteration order, or the empty notice
print_data(inv) ==
  [inv |-> inv,
   lines |-> IF inv = EmptyDict THEN <<[k |-> "Inventory is empty.", v |-> NoneV]>> ELSE inv]

(***************************************************************************)
(* JSON text.  A text is a sequence of tokens [k, v]: punctuation "p",     *)
(* decimal digit "d", string literal "s" (v is the string between the      *)
(* quotes), whitespace "w", the literal null "l", and any other            *)
(* character "x".  Integers are written and read digit by digit.           *)
(* The reader covers the documents the explored files hold: a scalar, an   *)
(* empty list, or an object whose values are scalars, and every prefix of  *)
(* what json_dump writes.                                                  *)
(***************************************************************************)
Tok(k, v) == [k |-> k, v |-> v]
P(c) == Tok("p", c)
S(name) == Tok("s", name)
W(c) == Tok("w", c)
NullTok == Tok("l", "null")
JunkTok == Tok("x", "?")

\* a JSON list as a Python value (only its type matters to the program)
ListV == [t |-> "list", n |-> 0, im |-> 0, s |-> ""]

DigitChars == <<"0", "1", "2", "3", "4", "5", "6", "7", "8", "9">>

DigitOf(c) == (CHOOSE i \in 1..10 : DigitChars[i] = c) - 1

\* decimal digits of n >= 0, most significant first
RECURSIVE Digits(_)
Digits(n) ==
  IF n < 10 THEN <<Tok("d", DigitChars[n + 1])>>
  ELSE Digits(n \div 10) \o <<Tok("d", DigitChars[(n % 10) + 1])>>

\* int.__repr__, as the encoder writes an int
EncodeInt(n) == IF n < 0 THEN <<P("-")>> \o Digits(-n) ELSE Digits(n)

\* the encoder on one value; ok = FALSE stands for TypeError ("Object of
\* type complex is not JSON serializable")
EncodeValue(v) ==
  CASE v.t = "int" -> [ok |-> TRUE, text |-> EncodeInt(v.n)]
    [] v.t = "str" -> [ok |-> TRUE, text |-> <<S(v.s)>>]
    [] v.t = "none" -> [ok |-> TRUE, text |-> <<NullTok>>]
    [] v.t = "list" -> [ok |-> TRUE, text |-> <<P("["), P("]")>>]
    [] OTHER -> [ok |-> FALSE, text |-> <<>>]

\* "\n" and the indent of 4
NewlineIndent == <<W("\n"), W(" "), W(" "), W(" "), W(" ")>>

\* the chunks written for entries i.. of a non-empty dict and the closing
\* brace; on a value that cannot be encoded, the chunks written before it
RECURSIVE DumpItems(_, _)
DumpItems(inv, i) ==
  IF i > Len(inv) THEN [ok |-> TRUE, text |-> <<W("\n"), P("}")>>]
  ELSE LET head == (IF i > 1 THEN <<P(",")>> \o NewlineIndent ELSE <<>>)
                   \o <<S(inv[i].k), P(":"), W(" ")>>
           e == EncodeValue(inv[i].v)
       IN  IF ~e.ok THEN [ok |-> FALSE, text |-> head]
           ELSE LET rest == DumpItems(inv, i + 1)
                IN  [ok |-> rest.ok, text |-> head \o e.text \o rest.text]

Abs(n) == IF n < 0 THEN -n ELSE n

\* json_dump that writes an integer without its sign
json_dump_unsigned(inv) ==
  IF inv = EmptyDict THEN [ok |-> TRUE, text |-> <<P("{"), P("}")>>]
  ELSE LET u == [i \in 1..Len(inv) |->
                   [k |-> inv[i].k,
                    v |-> IF inv[i].v.t = "int" THEN IntV(Abs(inv[i].v.n)) ELSE inv[i].v]]
           r == DumpItems(u, 1)
       IN  [ok |-> r.ok, text |-> <<P("{")>> \o NewlineIndent \o r.text]

\* json.dump(inventory, file_handle, indent=4): what reaches the file, and
\* whether the dump completed
json_dump(inv) ==
  IF inv = EmptyDict THEN [ok |-> TRUE, text |-> <<P("{"), P("}")>>]
  ELSE LET r == DumpItems(inv, 1)
       IN  [ok |-> r.ok, text |-> <<P("{")>> \o NewlineIndent \o r.text]

\* first position from i on that holds no whitespace (Len + 1 at the end)
RECURSIVE SkipWs(_, _)
SkipWs(t, i) ==
  IF i <= Len(t) /\ t[i].k = "w" THEN SkipWs(t, i + 1) ELSE i

\* the digits from i on, read into acc
RECURSIVE ReadDigits(_, _, _)
ReadDigits(t, i, acc) ==
  IF i <= Len(t) /\ t[i].k = "d"
  THEN ReadDigits(t, i + 1, 10 * acc + DigitOf(t[i].v))
  ELSE [n |-> acc, next |-> i]

ParseFail == [ok |-> FALSE, v |-> NoneV, next |-> 0]

\* an integer at i: "0", or a non-zero digit followed by digits
ReadInt(t, i) ==
  IF i > Len(t) \/ t[i].k # "d" THEN [ok |-> FALSE, n |-> 0, next |-> 0]
  ELSE IF t[i].v = "0" THEN [ok |-> TRUE, n |-> 0, next |-> i + 1]
  ELSE LET r == ReadDigits(t, i, 0) IN [ok |-> TRUE, n |-> r.n, next |-> r.next]

\* a scalar or an empty list at i
ParseValue(t, i) ==
  IF i > Len(t) THEN ParseFail
  ELSE CASE t[i].k = "s" -> [ok |-> TRUE, v |-> StrV(t[i].v), next |-> i + 1]
         [] t[i] = NullTok -> [ok |-> TRUE, v |-> NoneV, next |-> i + 1]
         [] t[i].k = "d" ->
              LET r == ReadInt(t, i)
              IN  IF r.ok THEN [ok |-> TRUE, v |-> IntV(r.n), next |-> r.next]
                  ELSE ParseFail
         [] t[i] = P("-") ->
              LET r == ReadInt(t, i + 1)
              IN  IF r.ok THEN [ok |-> TRUE, v |-> IntV(-r.n), next |-> r.next]
                  ELSE ParseFail
         [] t[i] = P("[") ->
              LET j == SkipWs(t, i + 1)
              IN  IF j <= Len(t) /\ t[j] = P("]")
                  THEN [ok |-> TRUE, v |-> ListV, next |-> j + 1]
                  ELSE ParseFail
         [] OTHER -> ParseFail

\* the members of an object from i on (a key is expected at i), added to
\* acc; a repeated key keeps its first position and takes the last value
RECURSIVE ParseMembers(_, _, _)
ParseMembers(t, i, acc) ==
  LET k == SkipWs(t, i)
  IN  IF k > Len(t) \/ t[k].k # "s" THEN [ok |-> FALSE, d |-> EmptyDict, next |-> 0]
      ELSE LET c == SkipWs(t, k + 1)
           IN  IF c > Len(t) \/ t[c] # P(":") THEN [ok |-> FALSE, d |-> EmptyDict, next |-> 0]
               ELSE LET val == ParseValue(t, SkipWs(t, c + 1))
                        e == IF val.ok THEN SkipWs(t, val.next) ELSE 0
                    IN  IF ~val.ok \/ e > Len(t) THEN [ok |-> FALSE, d |-> EmptyDict, next |-> 0]
                        ELSE IF t[e] = P("}")
                        THEN [ok |-> TRUE, d |-> dict_set(acc, t[k].v, val.v), next |-> e + 1]
                        ELSE IF t[e] = P(",")
                        THEN ParseMembers(t, e + 1, dict_set(acc, t[k].v, val.v))
                        ELSE [ok |-> FALSE, d |-> EmptyDict, next |-> 0]

\* json.load(file_handle) on the decoded text: ok = FALSE stands for
\* JSONDecodeError; isdict tells whether the document is an object
json_load(t) ==
  LET i == SkipWs(t, 1)
  IN  IF i > Len(t) THEN [ok |-> FALSE, isdict |-> FALSE, d |-> EmptyDict]
      ELSE IF t[i] = P("{")
      THEN LET j == SkipWs(t, i + 1)
               r == IF j <= Len(t) /\ t[j] = P("}")
                    THEN [ok |-> TRUE, d |-> EmptyDict, next |-> j + 1]
                    ELSE ParseMembers(t, j, EmptyDict)
           IN  IF r.ok /\ SkipWs(t, r.next) > Len(t)
               THEN [ok |-> TRUE, isdict |-> TRUE, d |-> r.d]
               ELSE [ok |-> FALSE, isdict |-> FALSE, d |-> EmptyDict]
      ELSE LET r == ParseValue(t, i)
           IN  IF r.ok /\ SkipWs(t, r.next) > Len(t)
               THEN [ok |-> TRUE, isdict |-> FALSE, d |-> EmptyDict]
               ELSE [ok |-> FALSE, isdict |-> FALSE, d |-> EmptyDict]

(***************************************************************************)
(* The file at a path: whether it exists, whether its bytes decode as      *)
(* UTF-8, and the decoded text.                                            *)
(***************************************************************************)
MissingFile == [exists |-> FALSE, utf8 |-> TRUE, text |-> <<>>]
TextFile(t) == [exists |-> TRUE, utf8 |-> TRUE, text |-> t]
BinaryFile == [exists |-> TRUE, utf8 |-> FALSE, text |-> <<>>]

\* load_data(filename) on the file at filename
load_data(f) ==
  IF ~f.exists
  THEN \* open raises FileNotFoundError, caught
       [out |-> "warning", msg |-> "not_found", d |-> EmptyDict]
  ELSE IF ~f.utf8
  THEN \* file_handle.read() raises UnicodeDecodeError: a ValueError that is
       \* no JSONDecodeError, so no except clause catches it
       [out |-> "raise", msg |-> "UnicodeDecodeError", d |-> EmptyDict]
  ELSE LET data == json_load(f.text)
       IN  IF ~data.ok THEN [out |-> "error", msg |-> "decode_error", d |-> EmptyDict]
           ELSE IF ~data.isdict THEN [out |-> "error", msg |-> "not_a_dict", d |-> EmptyDict]
           ELSE [out |-> "ok", msg |-> "loaded", d |-> data.d]

\* the first k tokens of t
Prefix(t, k) == SubSeq(t, 1, k)

\* save_data(inventory, filename) on the file f at filename.  io is what
\* the file system does: "ok"; "open_fails" (open raises OSError, the file
\* is untouched); "write_fails" (open truncated the file and a write raises
\* OSError after `cut` tokens).  IOError is OSError and is caught; the
\* TypeError of an unserializable value is not.
save_data(inv, f, io, cut) ==
  LET dump == json_dump(inv)
  IN  CASE io = "open_fails" -> [file |-> f, out |-> "error", msg |-> "io_error"]
        [] io = "write_fails" ->
             [file |-> TextFile(Prefix(dump.text, cut)), out |-> "error", msg |-> "io_error"]
        [] OTHER ->
             IF dump.ok
             THEN [file |-> TextFile(dump.text), out |-> "ok", msg |-> "saved"]
             ELSE [file |-> TextFile(dump.text), out |-> "raise", msg |-> "TypeError"]

(***************************************************************************)
(* State.                                                                  *)
(*   inventory  the dict the operations are called on (stock_data in main) *)
(*   file       the file at the path given to save_data / load_data        *)
(*   pc         "api" (Spec), "io" (SpecIO), or main's next statement      *)
(*   last       the last call: operation, arguments, outcome, and the      *)
(*              operation and outcome of the call before it                *)
(*   ret        what the last call returned or printed                     *)
(*   ledger     per item name, the running total of the calls so far (kept *)
(*              while calls is not "other")                                *)
(*   calls      class of the mutating calls made so far                    *)
(***************************************************************************)
Names == {"apple", "banana"}

\* item arguments: two names and a non-text item (main passes 123)
Items == {StrV(n) : n \in Names} \cup {IntV(123)}

\* qty arguments: integers of every sign, and a str, None and a complex
Qtys == {IntV(n) : n \in -1..2} \cup {StrV("ten"), NoneV, ComplexV(0, 1)}

\* threshold arguments besides the default
Thresholds == {0, 2}

NoRet == [q |-> NoneV, low |-> <<>>, d |-> EmptyDict, lines |-> <<>>]

Call(op, item, qty, th, out, msg) ==
  [op |-> op, item |-> item, qty |-> qty, th |-> th, out |-> out, msg |-> msg,
   pop |-> "none", pout |-> "none"]

NoCall == Call("none", NoneV, NoneV, 0, "ok", "none")

\* the stored values stay within the explored range
InBounds(inv) ==
  \A i \in 1..Len(inv) :
     IF inv[i].v.t = "complex"
     THEN Abs(inv[i].v.n) <= MaxComplex /\ Abs(inv[i].v.im) <= MaxComplex
     ELSE Abs(inv[i].v.n) <= MaxQty

\* The running total the specification describes for one item: an Add
\* adds qty; a Remove of an absent item subtracts nothing; a Remove of a
\* present item subtracts qty and resets the total to 0 (entry absent) when
\* it reaches 0 or below.
NoLedger == [n \in Names |-> [present |-> FALSE, total |-> 0]]

LedgerAdd(l, item, qty) ==
  IF item.t = "str" /\ qty.t = "int" /\ item.s \in Names
  THEN [l EXCEPT ![item.s] = [present |-> TRUE, total |-> @.total + qty.n]]
  ELSE l

LedgerRemove(l, item, qty) ==
  IF item.t = "str" /\ qty.t = "int" /\ item.s \in Names
  THEN IF ~l[item.s].present THEN l
       ELSE IF l[item.s].total - qty.n <= 0
       THEN [l EXCEPT ![item.s] = [present |-> FALSE, total |-> 0]]
       ELSE [l EXCEPT ![item.s] = [present |-> TRUE, total |-> @.total - qty.n]]
  ELSE l

\* "positive": every mutating call so far was Add or Remove with a text
\* item and an integer qty >= 1, starting from the empty inventory;
\* "integer": the same with integer qty of any sign; "other": anything else.
CallsAfter(c, item, qty) ==
  IF c = "other" \/ item.t # "str" \/ qty.t # "int" THEN "other"
  ELSE IF qty.n >= 1 THEN c
  ELSE "integer"

\* dicts a caller may hand to the operations besides the empty one: one
\* of integer quantities, and dicts load_data returns for files whose
\* values are not integers
InitInventories ==
  { EmptyDict,
    <<[k |-> "apple", v |-> IntV(1)], [k |-> "banana", v |-> IntV(5)]>>,
    <<[k |-> "banana", v |-> StrV("x")]>>,
    <<[k |-> "apple", v |-> NoneV], [k |-> "banana", v |-> IntV(2)]>> }

Init ==
  /\ inventory \in InitInventories
  /\ file = [exists |-> FALSE, utf8 |-> TRUE, text |-> <<>>]
  /\ pc = "api"
  /\ last = NoCall
  /\ ret = NoRet
  /\ ledger = NoLedger
  /\ calls = IF inventory = EmptyDict THEN "positive" ELSE "other"

AddItem(item, qty) ==
  /\ pc = "api"
  /\ LET r == add_item(inventory, item, qty)
     IN  /\ InBounds(r.inv)
         /\ inventory' = r.inv
         /\ last' = Call("add", item, qty, 0, r.out, r.msg)
  /\ ret' = NoRet
  /\ calls' = CallsAfter(calls, item, qty)
  /\ ledger' = IF calls' = "other" THEN NoLedger ELSE LedgerAdd(ledger, item, qty)
  /\ UNCHANGED <<file, pc>>

RemoveItem(item, qty) ==
  /\ pc = "api"
  /\ LET r == remove_item(inventory, item, qty)
     IN  /\ InBounds(r.inv)
         /\ inventory' = r.inv
         /\ last' = Call("remove", item, qty, 0, r.out, r.msg)
  /\ ret' = NoRet
  /\ calls' = CallsAfter(calls, item, qty)
  /\ ledger' = IF calls' = "other" THEN NoLedger ELSE LedgerRemove(ledger, item, qty)
  /\ UNCHANGED <<file, pc>>

GetQty(item) ==
  /\ pc = "api"
  /\ LET r == get_qty(inventory, item)
     IN  /\ inventory' = r.inv
         /\ ret' = [NoRet EXCEPT !.q = r.ret]
  /\ last' = Call("get", item, NoneV, 0, "ok", "returned")
  /\ UNCHANGED <<file, pc, ledger, calls>>

CheckLowItems(threshold) ==
  /\ pc = "api"
  /\ LET r == check_low_items(inventory, threshold)
     IN  /\ inventory' = r.inv
         /\ ret' = [NoRet EXCEPT !.low = r.ret]
         /\ last' = Call("low", NoneV, NoneV, threshold, r.out, r.msg)
  /\ UNCHANGED <<file, pc, ledger, calls>>

\* check_low_items(inventory), the threshold left to its default
CheckLowItemsDefault ==
  /\ pc = "api"
  /\ LET r == check_low_items(inventory, DefaultThreshold)
     IN  /\ inventory' = r.inv
         /\ ret' = [NoRet EXCEPT !.low = r.ret]
         /\ last' = Call("low_default", NoneV, NoneV, 0, r.out, r.msg)
  /\ UNCHANGED <<file, pc, ledger, calls>>

PrintData ==
  /\ pc = "api"
  /\ LET r == print_data(inventory)
     IN  /\ inventory' = r.inv
         /\ ret' = [NoRet EXCEPT !.lines = r.lines]
  /\ last' = Call("print", NoneV, NoneV, 0, "ok", "printed")
  /\ UNCHANGED <<file, pc, ledger, calls>>

Next ==
  \/ \E item \in Items, qty \in Qtys : AddItem(item, qty)
  \/ \E item \in Items, qty \in Qtys : RemoveItem(item, qty)
  \/ \E item \in Items : GetQty(item)
  \/ \E threshold \in Thresholds : CheckLowItems(threshold)
  \/ CheckLowItemsDefault
  \/ PrintData

Spec == Init /\ [][Next]_vars

(***************************************************************************)
(* SpecIO: save_data and load_data called in any order with one inventory  *)
(* and one path.  load_data returns a new dict (ret.d); the inventory      *)
(* handed to save_data is not touched.                                     *)
(***************************************************************************)
IOValues ==
  {IntV(n) : n \in {-IOMax, -1, 0, 7, 10 * IOMax}}
    \cup {StrV("x"), NoneV, ComplexV(1, 1)}

\* the dicts with at most two entries over Names and IOValues
IOInventories ==
  {EmptyDict}
    \cup {<<[k |-> n, v |-> v]>> : n \in Names, v \in IOValues}
    \cup {d \in {<<[k |-> n, v |-> v], [k |-> m, v |-> w]>> :
                   n \in Names, m \in Names, v \in IOValues, w \in IOValues} :
            d[1].k # d[2].k}

\* what may be at the path before the first call
IOFiles ==
  { MissingFile, BinaryFile, TextFile(<<JunkTok>>), TextFile(<<P("["), P("]")>>),
    TextFile(<<Tok("d", "7")>>),
    TextFile(<<P("{"), S("apple"), P(":"), Tok("d", "1"), P("}")>>) }

InitIO ==
  /\ inventory \in IOInventories
  /\ file \in IOFiles
  /\ pc = "io"
  /\ last = NoCall
  /\ ret = NoRet
  /\ ledger = NoLedger
  /\ calls = "other"

After(call) == [call EXCEPT !.pop = last.op, !.pout = last.out]

\* where a failing write may stop: before the first token or before the last
Cuts(inv) ==
  LET n == Len(json_dump(inv).text) IN {0} \cup (IF n > 0 THEN {n - 1} ELSE {})

SaveData(io, cut) ==
  /\ pc = "io"
  /\ LET r == save_data(inventory, file, io, cut)
     IN  /\ file' = r.file
         /\ last' = After(Call("save", NoneV, NoneV, 0, r.out, r.msg))
  /\ ret' = NoRet
  /\ UNCHANGED <<inventory, pc, ledger, calls>>

LoadData ==
  /\ pc = "io"
  /\ LET r == load_data(file)
     IN  /\ ret' = [NoRet EXCEPT !.d = r.d]
         /\ last' = After(Call("load", NoneV, NoneV, 0, r.out, r.msg))
  /\ UNCHANGED <<inventory, file, pc, ledger, calls>>

NextIO ==
  \/ \E io \in {"ok", "open_fails"} : SaveData(io, 0)
  \/ \E cut \in Cuts(inventory) : SaveData("write_fails", cut)
  \/ LoadData

SpecIO == InitIO /\ [][NextIO]_vars

(***************************************************************************)
(* SpecMain: main(), one action per statement.  pc names the statement to  *)
(* run next; "finished" is the normal return (exit status 0), "crashed" an *)
(* exception that left main (traceback, exit status 1).                    *)
(***************************************************************************)
MainValues == {IntV(-10), IntV(1), StrV("x"), NoneV}

MainKeys == {"apple", "banana", "orange"}

\* JSON objects the default file may hold
MainDicts ==
  {EmptyDict}
    \cup {<<[k |-> n, v |-> v]>> : n \in MainKeys, v \in MainValues}
    \cup {d \in {<<[k |-> n, v |-> v], [k |-> m, v |-> w]>> :
                   n \in MainKeys, m \in MainKeys, v \in MainValues, w \in MainValues} :
            d[1].k # d[2].k}

\* states of inventory.json when the program starts: missing, not UTF-8,
\* not JSON, JSON that is no object, truncated JSON, and JSON objects
MainFiles ==
  { MissingFile, BinaryFile, TextFile(<<>>), TextFile(<<JunkTok>>),
    TextFile(<<P("["), P("]")>>), TextFile(<<Tok("d", "7")>>),
    TextFile(<<P("{"), S("apple"), P(":")>>) }
    \cup {TextFile(json_dump(d).text) : d \in MainDicts}

InitMain ==
  /\ inventory = EmptyDict
  /\ file \in MainFiles
  /\ pc = "load"
  /\ last = NoCall
  /\ ret = NoRet
  /\ ledger = NoLedger
  /\ calls = "other"

\* where main goes after a call with outcome out
Goto(out, next) == IF out = "raise" THEN "crashed" ELSE next

\* stock_data = load_data()
MainLoad ==
  /\ pc = "load"
  /\ LET r == load_data(file)
     IN  /\ inventory' = r.d
         /\ last' = Call("load", NoneV, NoneV, 0, r.out, r.msg)
         /\ pc' = Goto(r.out, "add_apple")
  /\ ret' = NoRet
  /\ UNCHANGED <<file, ledger, calls>>

\* an add_item or remove_item statement of main
MainMutate(here, next, r, op, item, qty) ==
  /\ pc = here
  /\ inventory' = r.inv
  /\ last' = Call(op, item, qty, 0, r.out, r.msg)
  /\ pc' = Goto(r.out, next)
  /\ ret' = NoRet
  /\ UNCHANGED <<file, ledger, calls>>

\* add_item(stock_data, "apple", 10)
MainAddApple ==
  MainMutate("add_apple", "add_banana", add_item(inventory, StrV("apple"), IntV(10)),
             "add", StrV("apple"), IntV(10))

\* add_item(stock_data, "banana", 2)
MainAddBanana ==
  MainMutate("add_banana", "add_invalid", add_item(inventory, StrV("banana"), IntV(2)),
             "add", StrV("banana"), IntV(2))

\* add_item(stock_data, 123, "ten")
MainAddInvalid ==
  MainMutate("add_invalid", "remove_apple", add_item(inventory, IntV(123), StrV("ten")),
             "add", IntV(123), StrV("ten"))

\* remove_item(stock_data, "apple", 3)
MainRemoveApple ==
  MainMutate("remove_apple", "remove_orange", remove_item(inventory, StrV("apple"), IntV(3)),
             "remove", StrV("apple"), IntV(3))

\* remove_item(stock_data, "orange", 1)
MainRemoveOrange ==
  MainMutate("remove_orange", "get_apple", remove_item(inventory, StrV("orange"), IntV(1)),
             "remove", StrV("orange"), IntV(1))

\* print(f"Apple stock: {get_qty(stock_data, 'apple')}")
MainGetQty ==
  /\ pc = "get_apple"
  /\ LET r == get_qty(inventory, StrV("apple"))
     IN  /\ inventory' = r.inv
         /\ ret' = [NoRet EXCEPT !.q = r.ret]
  /\ last' = Call("get", StrV("apple"), NoneV, 0, "ok", "returned")
  /\ pc' = "check_low"
  /\ UNCHANGED <<file, ledger, calls>>

\* low_items = check_low_items(stock_data); print(f"Low items: {low_items}")
MainCheckLow ==
  /\ pc = "check_low"
  /\ LET r == check_low_items(inventory, DefaultThreshold)
     IN  /\ inventory' = r.inv
         /\ ret' = [NoRet EXCEPT !.low = r.ret]
         /\ last' = Call("low_default", NoneV, NoneV, 0, r.out, r.msg)
         /\ pc' = Goto(r.out, "print")
  /\ UNCHANGED <<file, ledger, calls>>

\* print_data(stock_data)
MainPrint ==
  /\ pc = "print"
  /\ LET r == print_data(inventory)
     IN  /\ inventory' = r.inv
         /\ ret' = [NoRet EXCEPT !.lines = r.lines]
  /\ last' = Call("print", NoneV, NoneV, 0, "ok", "printed")
  /\ pc' = "save"
  /\ UNCHANGED <<file, ledger, calls>>

\* save_data(stock_data); print("Program finished.")
MainSave(io, cut) ==
  /\ pc = "save"
  /\ LET r == save_data(inventory, file, io, cut)
     IN  /\ file' = r.file
         /\ last' = Call("save", NoneV, NoneV, 0, r.out, r.msg)
         /\ pc' = Goto(r.out, "finished")
  /\ ret' = NoRet
  /\ UNCHANGED <<inventory, ledger, calls>>

NextMain ==
  \/ MainLoad
  \/ MainAddApple
  \/ MainAddBanana
  \/ MainAddInvalid
  \/ MainRemoveApple
  \/ MainRemoveOrange
  \/ MainGetQty
  \/ MainCheckLow
  \/ MainPrint
  \/ \E io \in {"ok", "open_fails"} : MainSave(io, 0)
  \/ \E cut \in Cuts(inventory) : MainSave("write_fails", cut)

SpecMain == InitMain /\ [][NextMain]_vars

(***************************************************************************)
(* The claims.                                                             *)
(***************************************************************************)
\* every quantity of inv is an integer
IntInventory(inv) == \A i \in 1..Len(inv) : inv[i].v.t = "int"

\* the quantity stored for key k, which is present
Stored(inv, k) == inv[IndexOf(inv, k)].v

\* C1 (Spec): in every state reached right after a Remove, over calls of
\* Add and Remove with text items and integer quantities from the empty
\* inventory, no entry has a quantity <= 0.
C1_NoNonPositiveAfterRemove ==
  (calls # "other" /\ last.op = "remove")
    => \A i \in 1..Len(inventory) : inventory[i].v.t = "int" /\ inventory[i].v.n > 0

\* C2 (Spec): from the empty inventory, after any calls of Add and Remove
\* with text items and integer quantities, GetQuantity(item) is the running
\* total of the item (adds minus removes, reset to 0 and the entry absent
\* when a removal brings it to 0 or below, nothing subtracted by a removal
\* of an absent item), whatever was done to other items.
C2_QuantityIsRunningTotal ==
  calls # "other"
    => \A n \in Names :
         /\ get_qty(inventory, StrV(n)).ret = IntV(ledger[n].total)
         /\ ledger[n].present <=> n \in Keys(inventory)

C2_Witness ==
  /\ calls # "other"
  /\ last.op = "remove" /\ last.msg = "removed_all" /\ last.item = StrV("apple")
  /\ ledger["apple"] = [present |-> FALSE, total |-> 0]
  /\ ledger["banana"].total >= 3
  /\ get_qty(inventory, StrV("banana")).ret = IntV(ledger["banana"].total)

\* C3 (Spec): Remove(item, qty) of a present item with an integer qty (the
\* stored quantity an integer): when stored - qty <= 0 the entry is deleted
\* and GetQuantity(item) is 0; otherwise the entry stays and holds
\* stored - qty.
C3_RemovePresentItem ==
  [][ ( /\ last'.op = "remove"
        /\ dict_has(inventory, last'.item)
        /\ last'.qty.t = "int"
        /\ Stored(inventory, last'.item.s).t = "int" )
      => LET k == last'.item.s
             d == Stored(inventory, k).n - last'.qty.n
         IN  IF d <= 0
             THEN /\ k \notin Keys(inventory')
                  /\ get_qty(inventory', last'.item).ret = IntV(0)
             ELSE /\ k \in Keys(inventory')
                  /\ Stored(inventory', k) = IntV(d) ]_vars

C3_Witness ==
  /\ last.op = "remove" /\ last.qty = IntV(2) /\ last.item = StrV("banana")
  /\ last.msg = "removed_some"
  /\ dict_get(inventory, StrV("banana"), NoneV) = IntV(3)

\* C4 (Spec): whenever Add or Remove reports an error or a warning, the
\* inventory after the call is the inventory before it.
C4_ReportedFailureLeavesInventory ==
  [][ (last'.op \in {"add", "remove"} /\ last'.out \in {"error", "warning"})
      => inventory' = inventory ]_vars

\* C5 (SpecMain): from any state of the default file, main runs every
\* statement and exits with status 0: no exception leaves it.
C5_MainNeverCrashes == pc # "crashed"

C7_LoadNeverFails ==
  last.op = "load"
    => /\ last.out # "raise"
       /\ ret.d = IF file.exists /\ file.utf8 /\ json_load(file.text).isdict
                  THEN json_load(file.text).d
                  ELSE EmptyDict

\* C8 (Spec): CheckLowStock(inventory, threshold) on integer quantities
\* returns exactly the names whose quantity is strictly below the threshold,
\* each once, in the inventory's iteration order; the default threshold is 5.
C8_LowStockList ==
  (last.op \in {"low", "low_default"} /\ IntInventory(inventory))
    => LET th == IF last.op = "low_default" THEN 5 ELSE last.th
           low == ret.low
       IN  /\ last.out = "ok"
           /\ {low[i] : i \in 1..Len(low)}
                = {inventory[i].k : i \in {j \in 1..Len(inventory) : inventory[j].v.n < th}}
           /\ \A i, j \in 1..Len(low) :
                i < j => IndexOf(inventory, low[i]) < IndexOf(inventory, low[j])

C8_Witness ==
  /\ last.op = "low_default"
  /\ Len(inventory) = 2
  /\ inventory[1].v = IntV(5) /\ inventory[2].v = IntV(4)
  /\ ret.low = <<inventory[2].k>>

\* C9 (Spec): GetQuantity, CheckLowStock and Report leave the inventory as
\* it was, for any item and threshold; GetQuantity of an absent item returns
\* 0 and creates no entry.
C9_QueriesDoNotMutate ==
  [][ /\ last'.op \in {"get", "low", "low_default", "print"} => inventory' = inventory
      /\ (last'.op = "get" /\ ~dict_has(inventory, last'.item))
           => (ret'.q = IntV(0) /\ Keys(inventory') = Keys(inventory)) ]_vars

C9_Witness ==
  /\ last.op = "get" /\ last.item = StrV("banana")
  /\ ~dict_has(inventory, last.item)
  /\ inventory # EmptyDict
  /\ ret.q = IntV(0)

\* C10 (Spec): from the empty inventory, when every Add and every Remove
\* had an integer qty >= 1, every stored quantity is >= 1, so GetQuantity is
\* 0 exactly for the absent items.
C10_PositiveQuantities ==
  calls = "positive"
    => /\ \A i \in 1..Len(inventory) :
            inventory[i].v.t = "int" /\ inventory[i].v.n >= 1
       /\ \A n \in Names :
            get_qty(inventory, StrV(n)).ret = IntV(0) <=> n \notin Keys(inventory)

C10_Witness ==
  /\ calls = "positive"
  /\ last.op = "remove" /\ last.msg = "removed_all"
  /\ inventory # EmptyDict

====
